---- MODULE Spec2Model ----
(***************************************************************************)
(* A model of the three camera applications of the repository:             *)
(*   CameraApp     (camera_app.py)      USB camera or Pi Camera            *)
(*   USBCameraApp  (usb_camera_app.py)  USB camera                         *)
(*   PiCameraApp   (pi_camera_app.py)   Pi Camera                          *)
(* One behaviour follows one object of one of the three classes: its       *)
(* construction (load_config, directory creation), run() with its polling  *)
(* loop, cleanup and, for CameraApp, __del__.  The launcher                 *)
(* (camera_launcher.py), which starts one of the applications as a child   *)
(* process, is followed in behaviours of its own.                          *)
(*                                                                         *)
(* The camera, codec and file-system libraries are outside the repository; *)
(* every call into them is a choice among the results the call can give    *)
(* (a frame or none, a writer that opened or did not, an exception).       *)
(***************************************************************************)
EXTENDS Integers, Sequences, FiniteSets, TLC

(***************************************************************************)
(* Bounds of the model.                                                    *)
(***************************************************************************)
\* The clock runs in half seconds from 0 to MaxClock.
MaxClock == 2
\* detect_cameras probes the indices 0 .. NumIndices-1 (range(10) in the code).
NumIndices == 2
\* At most MaxLeaked unreferenced open handles wait for collection.
MaxLeaked == 1
\* The launcher's prompt is answered at most MaxInputs times.
MaxInputs == 3
\* camera_launcher.check_usb_camera probes the indices 0 .. 2 (range(3)).
LauncherIndices == 3

Apps == {"CameraApp", "USBCameraApp", "PiCameraApp"}

(***************************************************************************)
(* Configuration.  A dict is a function from its keys to values; a value   *)
(* of a section is a dict, something that is no dict ("scalar"), or is     *)
(* absent from the file.                                                   *)
(***************************************************************************)
Sections == {"camera", "video", "save_paths", "display"}

Dict(f) == [kind |-> "dict", items |-> f]
Scalar == [kind |-> "scalar", items |-> <<>>]
Absent == [kind |-> "absent", items |-> <<>>]

HomePictures == "/home/pi/Pictures"
HomeMovies == "/home/pi/Movies"
DesktopPictures == "/home/pi/Desktop/Pictures"
DesktopMovies == "/home/pi/Desktop/Movies"
CwdPictures == "./Pictures"
CwdMovies == "./Movies"

\* camera_app.py: default_config of CameraApp.load_config
default_config_CameraApp ==
  [camera     |-> Dict([width |-> "1280", height |-> "720", fps |-> "30",
                        auto_detect |-> "True", preferred_index |-> "0",
                        preferred_type |-> "auto"]),
   video      |-> Dict([codec |-> "mp4v", quality |-> "high", fps |-> "30"]),
   save_paths |-> Dict([images |-> HomePictures, videos |-> HomeMovies]),
   display    |-> Dict([show_fps |-> "True", show_status |-> "True",
                        show_timestamp |-> "True"])]

\* usb_camera_app.py: default_config of USBCameraApp.load_config
default_config_USBCameraApp ==
  [camera     |-> Dict([width |-> "640", height |-> "480", fps |-> "30"]),
   save_paths |-> Dict([images |-> HomePictures, videos |-> HomeMovies]),
   video      |-> Dict([codec |-> "MJPG", fps |-> "30"]),
   display    |-> Absent]

\* pi_camera_app.py: default_config of PiCameraApp.load_config
default_config_PiCameraApp ==
  [camera     |-> Dict([width |-> "640", height |-> "480", fps |-> "30"]),
   save_paths |-> Dict([images |-> HomePictures, videos |-> HomeMovies]),
   video      |-> Dict([codec |-> "H264", fps |-> "30"]),
   display    |-> Absent]

default_config(a) ==
  CASE a = "CameraApp"    -> default_config_CameraApp
    [] a = "USBCameraApp" -> default_config_USBCameraApp
    [] a = "PiCameraApp"  -> default_config_PiCameraApp

\* The top-level keys of a default configuration, in the order the dict
\* literal gives them (the order `for key in default_config` visits them).
DefaultKeys(a) ==
  IF a = "CameraApp" THEN <<"camera", "video", "save_paths", "display">>
                     ELSE <<"camera", "save_paths", "video">>

\* dict.update: the keys of both, the argument's values winning.
DictUpdate(d, e) ==
  [k \in (DOMAIN d) \cup (DOMAIN e) |-> IF k \in DOMAIN e THEN e[k] ELSE d[k]]

\* A configuration file: missing, not JSON, or a JSON object.
MissingFile == [kind |-> "missing", obj |-> [s \in Sections |-> Absent]]
InvalidFile == [kind |-> "invalid", obj |-> [s \in Sections |-> Absent]]
ObjectFile(o) == [kind |-> "object", obj |-> o]

\* A merge that takes the file's section in place of the default one
\* (section = file section, where lines 98-100 update the default section)
MergeFrom_replacing(i, cfg, obj) ==
  [sec \in Sections |-> IF obj[sec].kind = "dict" THEN obj[sec] ELSE cfg[sec]]

\* CameraApp.load_config, lines 95-100: the merge loop from the i-th default
\* key on.  A section of the file that is no dict makes dict.update raise; the
\* except clause then falls through to `return default_config`, which is the
\* dict as merged so far.
RECURSIVE MergeFrom(_, _, _)
MergeFrom(i, cfg, obj) ==
  IF i > Len(DefaultKeys("CameraApp")) THEN cfg
  ELSE LET key == DefaultKeys("CameraApp")[i] IN
       IF obj[key].kind = "absent" THEN MergeFrom(i + 1, cfg, obj)
       ELSE IF obj[key].kind = "dict"
            THEN MergeFrom(i + 1,
                   [cfg EXCEPT ![key] = Dict(DictUpdate(cfg[key].items, obj[key].items))],
                   obj)
            ELSE cfg

load_config_CameraApp(file) ==
  IF file.kind = "object"
    THEN MergeFrom(1, default_config_CameraApp, file.obj)
    ELSE default_config_CameraApp

\* USBCameraApp.load_config / PiCameraApp.load_config, lines 54-57: a default
\* section is copied only when the file has no such top-level key.
MergeTopLevel(a, obj) ==
  [s \in Sections |->
     IF obj[s].kind = "absent" THEN default_config(a)[s] ELSE obj[s]]

load_config_USBCameraApp(file) ==
  IF file.kind = "object"
    THEN MergeTopLevel("USBCameraApp", file.obj)
    ELSE default_config_USBCameraApp

load_config_PiCameraApp(file) ==
  IF file.kind = "object"
    THEN MergeTopLevel("PiCameraApp", file.obj)
    ELSE default_config_PiCameraApp

load_config(a, file) ==
  CASE a = "CameraApp"    -> load_config_CameraApp(file)
    [] a = "USBCameraApp" -> load_config_USBCameraApp(file)
    [] a = "PiCameraApp"  -> load_config_PiCameraApp(file)

\* What load_config leaves on disk: USBCameraApp and PiCameraApp write the
\* default configuration when there was no file (wrote: the write succeeded).
file_after_load(a, file, wrote) ==
  IF a # "CameraApp" /\ file.kind = "missing" /\ wrote
    THEN ObjectFile(default_config(a))
    ELSE file

\* self.config[sec][key] can be read (no KeyError, no TypeError)
Has(cfg, sec, key) == cfg[sec].kind = "dict" /\ key \in DOMAIN cfg[sec].items
Get(cfg, sec, key) == cfg[sec].items[key]

(***************************************************************************)
(* The state: the fields of the object, and what the libraries hold for    *)
(* it.  A handle field is "None", "Open" (an object whose device or file   *)
(* is open) or "Closed" (an object that failed to open or was released);   *)
(* video_writer may also be "True", the flag CameraApp sets for a native   *)
(* recording.                                                              *)
(* recording_start_time is <<>> for None and <<t>> for the time t.         *)
(***************************************************************************)
VARIABLES
  app,                  \* the class of the object
  pc,                   \* "new", "constructed", "construct_failed", "running", "ended", "deleted"
  exit_path,            \* how run() ended: "none", "startup_failed", "quit", "interrupt", "error", "frame_failed"
  config_file,          \* camera_config.json on disk
  config,               \* self.config
  is_recording,         \* self.is_recording
  video_writer,         \* self.video_writer
  recording_start_time, \* self.recording_start_time
  camera_type,          \* CameraApp: self.camera_type ("None", "usb", "picam")
  cap,                  \* CameraApp: self.cap
  cap_index,            \* CameraApp: the device index self.cap was made
                        \* with, <<i>>, or <<>> when there is none
  picam,                \* CameraApp: self.picam
  raw_capture,          \* CameraApp: self.raw_capture ("None", "Array")
  camera,               \* USBCameraApp, PiCameraApp: self.camera
  native_rec,           \* picamera: a recording started by start_recording is running
  leaked_caps,          \* open cv2.VideoCapture objects nothing refers to any more
  leaked_writers,       \* open cv2.VideoWriter objects nothing refers to any more
  written,              \* the file the last operation wrote, if any: {[op, dir, prefix, ts, ext]}
  now,                  \* the clock, in half seconds
  saved,                \* history: [watch, files], files being the images
                        \* written so far, each with the clock reading of
                        \* the save_image call that wrote it, kept when
                        \* watch is set
  call,                 \* a method called on its own: <<>> or <<[args,
                        \* result]>>, its arguments and what it returned
  screen,               \* the window: shown is the frame cv2.imshow showed
                        \* last (<<>> before the first), t_presses the t
                        \* keys handled so far, modulo 2, t_before what
                        \* t_presses was when the frame was shown, pending
                        \* the key pressed and not yet read by cv2.waitKey
                        \* ("none" when there is none), and missed the
                        \* iterations without a frame since the last frame
                        \* shown, modulo 2
  last,                 \* the last operation: [op, key, failed, rec], rec being
                        \* is_recording as the operation found it
  launcher              \* camera_launcher.main: [pc, pi_camera_available,
                        \* usb_camera_available, usb_index, inputs, launched,
                        \* exc]; pc is "idle" where the launcher is not run

vars == <<app, pc, exit_path, config_file, config, is_recording, video_writer,
          recording_start_time, camera_type, cap, cap_index, picam, raw_capture,
          camera, native_rec, leaked_caps, leaked_writers, written, saved, now,
          call, screen, last, launcher>>

\* The variables of the application object
objvars == <<app, pc, exit_path, config_file, config, is_recording, video_writer,
             recording_start_time, camera_type, cap, cap_index, picam, raw_capture,
             camera, native_rec, leaked_caps, leaked_writers, written, saved, now,
             call, screen, last>>

\* The fields the methods read and write, as one record; exc is the
\* exception a method lets escape ("none", "Exception"), ret its result and
\* err whether a library call it made failed (raised, or reported failure).
Cur ==
  [config |-> config, is_recording |-> is_recording, video_writer |-> video_writer,
   recording_start_time |-> recording_start_time, camera_type |-> camera_type,
   cap |-> cap, cap_index |-> cap_index, picam |-> picam, raw_capture |-> raw_capture, camera |-> camera,
   native_rec |-> native_rec, leaked_caps |-> leaked_caps,
   leaked_writers |-> leaked_writers, written |-> {}, exc |-> "none", ret |-> TRUE,
   err |-> FALSE]

Commit(s) ==
  /\ config' = s.config
  /\ is_recording' = s.is_recording
  /\ video_writer' = s.video_writer
  /\ recording_start_time' = s.recording_start_time
  /\ camera_type' = s.camera_type
  /\ cap' = s.cap
  /\ cap_index' = s.cap_index
  /\ picam' = s.picam
  /\ raw_capture' = s.raw_capture
  /\ camera' = s.camera
  /\ native_rec' = s.native_rec
  /\ leaked_caps' = s.leaked_caps
  /\ leaked_writers' = s.leaked_writers
  /\ written' = s.written
  /\ saved' = IF saved.watch
                THEN [saved EXCEPT !.files = @ \cup
                        {[at |-> now, file |-> f] :
                           f \in {g \in s.written : g.op = "save_image"}}]
                ELSE saved

\* A timestamp that keeps the clock's half seconds ("%H%M%S.%f")
Timestamp_subsecond(t) == t

\* datetime.now().strftime("%Y%m%d_%H%M%S"): the clock cut to whole seconds
Timestamp(t) == t \div 2

\* str.replace('.h264', '.mp4') on the strings of the model
ReplaceH264(str) ==
  CASE str = ".h264" -> ".mp4"
    [] str = "/mnt/rec.h264" -> "/mnt/rec.mp4"
    [] OTHER -> str

\* cv2.VideoWriter_fourcc(*codec) takes exactly four characters
FourccOk(codec) == codec \in {"mp4v", "MJPG", "H264", "XVID"}

Truthy(v) == v # "None"

\* An assignment to a handle field: the object the field held is no longer
\* referred to; if it is still open it stays open until it is collected.
AssignCap(s, v) ==
  [s EXCEPT !.cap = v,
            !.leaked_caps = @ + (IF s.cap = "Open" THEN 1 ELSE 0)]
AssignCamera(s, v) ==
  [s EXCEPT !.camera = v,
            !.leaked_caps = @ + (IF s.camera = "Open" /\ v # "None" THEN 1 ELSE 0)]
AssignWriter(s, v) ==
  [s EXCEPT !.video_writer = v,
            !.leaked_writers = @ + (IF s.video_writer = "Open" THEN 1 ELSE 0)]

Raise(s) == [s EXCEPT !.exc = "Exception", !.err = TRUE]
Fail(s) == [s EXCEPT !.err = TRUE]
Return(s, r) == [s EXCEPT !.ret = r]

\* A file a method writes
File(op, dir, prefix, t, ext) ==
  [op |-> op, dir |-> dir, prefix |-> prefix, ts |-> Timestamp(t), ext |-> ext,
   overlay |-> FALSE]
\* An image file with the content of a frame
Image(f, frame) == [f EXCEPT !.overlay = frame.overlay]
Write(s, f) == [s EXCEPT !.written = {f}]

\* A frame: overlay is whether text has been drawn on it.  Frame is a frame
\* as the camera delivers it.
Frame == [overlay |-> FALSE]

\* draw_overlay_info: cv2.putText draws the control lines on the frame it is
\* given, in place
draw_overlay_info(frame) == [frame EXCEPT !.overlay = TRUE]

\* The frame run() has after its drawing step, which it shows and hands to
\* the key handlers: each run() calls draw_overlay_info on every frame, and
\* none consults config["display"]
Displayed == draw_overlay_info(Frame)

(***************************************************************************)
(* CameraApp (camera_app.py)                                               *)
(***************************************************************************)
\* detect_cameras: probe.usb[i] is what index i does ("absent": does not open,
\* "noframe": opens and gives no frame, "ok", "raise": VideoCapture, isOpened
\* or read raises, "release_raises": a frame is read and cap.release() raises);
\* probe.picam is whether PiCamera() succeeds.  Returns the indices found,
\* ascending, and has_picam.
ProbeOutcomes == {"absent", "noframe", "ok", "raise", "release_raises"}
Delivered == {"ok", "release_raises"}
Probes == [usb : [0 .. NumIndices - 1 -> ProbeOutcomes], picam : BOOLEAN]

\* One turn of the loop over the indices with every exception escaping (the
\* loop without the try of lines 114 and 122-124)
probe_index_uncaught(r, i, outcome) ==
  IF r.exc # "none" THEN r
  ELSE IF outcome = "ok" THEN [r EXCEPT !.usb_cameras = Append(@, i)]
  ELSE IF outcome = "release_raises"
    THEN [r EXCEPT !.usb_cameras = Append(@, i), !.exc = "Exception"]
  ELSE IF outcome = "raise" THEN [r EXCEPT !.exc = "Exception"]
  ELSE r

\* detect_cameras, lines 114-124: one turn of the loop over the indices.  The
\* index is appended when the capture opened and read a frame; an exception
\* is caught and the loop goes on.
probe_index(r, i, outcome) ==
  IF r.exc # "none" THEN r
  ELSE IF outcome \in Delivered THEN [r EXCEPT !.usb_cameras = Append(@, i)]
  ELSE r

\* The loop from index i on (NumIndices stands for the 10 of range(10))
RECURSIVE probe_from(_, _, _)
probe_from(i, probe, r) ==
  IF i >= NumIndices THEN r
  ELSE probe_from(i + 1, probe, probe_index(r, i, probe.usb[i]))

\* detect_cameras: the loop, then PiCamera() in a try of its own; exc is the
\* exception that leaves the method, if any
detect_cameras(probe) ==
  LET r == probe_from(0, probe, [usb_cameras |-> <<>>, exc |-> "none"])
  IN  [usb_cameras |-> r.usb_cameras,
       has_picam |-> r.exc = "none" /\ probe.picam,
       exc |-> r.exc]

usb_cameras(probe) == detect_cameras(probe).usb_cameras

\* initialize_usb_camera: opened is whether VideoCapture(index) opened
initialize_usb_camera(s, index, opened) ==
  IF ~opened
    THEN Return(Fail([AssignCap(s, "Closed") EXCEPT !.cap_index = <<index>>]), FALSE)
    ELSE Return([AssignCap(s, "Open") EXCEPT !.cap_index = <<index>>,
                                             !.camera_type = "usb"], TRUE)

\* initialize_picamera: ctor is "ok" or "raise" (PiCamera() or a setter after
\* it raises; the except clause closes the camera either way).  The camera is
\* exclusive: PiCamera() raises while this object holds one open.
initialize_picamera(s, ctor) ==
  IF ctor = "ok" /\ s.picam # "Open"
    THEN Return([s EXCEPT !.picam = "Open", !.raw_capture = "Array",
                          !.camera_type = "picam"], TRUE)
    ELSE \* except: close whatever self.picam holds, if anything
         Return(Fail([s EXCEPT !.picam = "None",
                               !.native_rec = IF s.picam = "None" THEN @ ELSE FALSE]),
                FALSE)

\* initialize_camera taking the last of the USB cameras found, where line 157
\* and line 165 take usb_cameras[0]
initialize_camera_last_index(s, o) ==
  LET detected == detect_cameras(o.probe)
      usb == detected.usb_cameras
      has_picam == detected.has_picam
      preferred == Get(s.config, "camera", "preferred_type")
  IN  IF detected.exc # "none" THEN Raise(s)
      ELSE IF preferred = "auto"
        THEN IF has_picam THEN initialize_picamera(s, o.ctor)
             ELSE IF usb # <<>> THEN initialize_usb_camera(s, usb[Len(usb)], o.opened)
             ELSE Return(Fail(s), FALSE)
      ELSE IF preferred = "picam" /\ has_picam THEN initialize_picamera(s, o.ctor)
      ELSE IF preferred = "usb" /\ usb # <<>>
        THEN initialize_usb_camera(s, usb[Len(usb)], o.opened)
      ELSE Return(Fail(s), FALSE)

\* initialize_camera: o = [probe, opened, ctor]
initialize_camera_CameraApp(s, o) ==
  LET detected == detect_cameras(o.probe)
      usb == detected.usb_cameras
      has_picam == detected.has_picam
      preferred == Get(s.config, "camera", "preferred_type")
  IN  IF detected.exc # "none" THEN Raise(s)
      ELSE IF preferred = "auto"
        THEN IF has_picam THEN initialize_picamera(s, o.ctor)
             ELSE IF usb # <<>> THEN initialize_usb_camera(s, usb[1], o.opened)
             ELSE Return(Fail(s), FALSE)
      ELSE IF preferred = "picam" /\ has_picam THEN initialize_picamera(s, o.ctor)
      ELSE IF preferred = "usb" /\ usb # <<>>
        THEN initialize_usb_camera(s, usb[1], o.opened)
      ELSE Return(Fail(s), FALSE)

\* get_frame: read is "frame", "none" (cap.read() gave ret False) or "raise"
\* (picam.capture raised).  ret is whether a frame came back.
get_frame_CameraApp(s, read) ==
  IF s.camera_type = "picam"
    THEN IF s.picam # "Open" \/ s.raw_capture = "None" \/ read = "raise"
           THEN Raise(s)
           ELSE Return(s, TRUE)
    ELSE IF s.cap = "None" THEN Raise(s)
         ELSE IF s.cap = "Open" /\ read = "frame" THEN Return(s, TRUE)
         ELSE Return(Fail(s), FALSE)

cleanup_camera(s) ==
  IF s.camera_type = "usb" /\ s.cap # "None"
    THEN [s EXCEPT !.cap = "None", !.cap_index = <<>>]
  ELSE IF s.camera_type = "picam"
    THEN [s EXCEPT !.picam = "None", !.raw_capture = "None",
                   !.native_rec = IF s.picam = "Open" THEN FALSE ELSE @]
  ELSE s

\* save_image: write is "ok", "fail" (cv2.imwrite returned False) or "raise"
\* (picam.capture or cv2.imwrite raised); every exception is caught.  The
\* image is a fresh capture for the Pi Camera and a copy of the frame given
\* for a USB camera.
save_image_CameraApp(s, frame, write, t) ==
  IF s.camera_type = "picam" /\ (s.picam # "Open" \/ s.raw_capture = "None")
    THEN Fail(s)
  ELSE IF write = "ok"
    THEN LET original_frame == IF s.camera_type = "picam" THEN Frame ELSE frame
         IN  Write(s, Image(File("save_image", Get(s.config, "save_paths", "images"),
                                 "Image", t, ".jpg"),
                            original_frame))
    ELSE Fail(s)

\* start_video_recording past its guard: start is "ok", "fail" (the
\* VideoWriter did not open) or "raise" (picam.start_recording raised)
begin_recording_CameraApp(s, start, t) ==
    LET videos == Get(s.config, "save_paths", "videos")
        started(w) == [w EXCEPT !.is_recording = TRUE, !.recording_start_time = <<t>>]
    IN  IF s.camera_type = "picam"
          THEN IF s.picam # "Open" \/ s.native_rec \/ start # "ok"
                 THEN Raise(s)
                 ELSE started(Write([AssignWriter(s, "True") EXCEPT !.native_rec = TRUE],
                                    File("start_video_recording", videos, "Video", t, ".h264")))
          ELSE IF ~FourccOk(Get(s.config, "video", "codec"))
                 THEN Raise(s)
               ELSE IF start = "ok"
                 THEN started(Write(AssignWriter(s, "Open"),
                                    File("start_video_recording", ReplaceH264(videos),
                                         "Video", t, ReplaceH264(".h264"))))
               ELSE \* the object is truthy whether or not it opened
                    started(Fail(AssignWriter(s, "Closed")))

\* A start_video_recording without the guard of lines 288-289
start_video_recording_CameraApp_unguarded(s, start, t) ==
  begin_recording_CameraApp(s, start, t)

\* start_video_recording, lines 288-289: nothing is done while recording
start_video_recording_CameraApp(s, start, t) ==
  IF s.is_recording THEN s ELSE begin_recording_CameraApp(s, start, t)

\* stop_video_recording: stop is "ok" or "raise" (picam.stop_recording raised)
stop_video_recording_CameraApp(s, stop) ==
  IF ~s.is_recording THEN s
  ELSE
    LET s1 == [s EXCEPT !.is_recording = FALSE] IN
    IF s1.camera_type = "picam"
      THEN IF s1.picam # "Open" THEN Raise(s1)
           ELSE IF ~s1.native_rec \/ stop = "raise"
             THEN Raise([s1 EXCEPT !.native_rec = FALSE])
             ELSE [s1 EXCEPT !.native_rec = FALSE, !.video_writer = "None"]
      ELSE [s1 EXCEPT !.video_writer = "None"]

\* switch_camera
switch_camera(s, o) ==
  IF s.is_recording THEN Return(s, FALSE)
  ELSE initialize_camera_CameraApp(s, o)

\* cleanup: stop_video_recording may raise, and then cleanup_camera is not reached
cleanup_CameraApp(s, stop) ==
  LET s1 == IF s.is_recording THEN stop_video_recording_CameraApp(s, stop) ELSE s
  IN  IF s1.exc # "none" THEN s1 ELSE cleanup_camera(s1)

\* __init__, lines 55-61: os.makedirs and os.chmod on both directories, with
\* nothing caught.  dirs_ok: all four calls succeeded.
create_directories_CameraApp(s, dirs_ok) ==
  IF dirs_ok THEN s ELSE Raise(s)

(***************************************************************************)
(* USBCameraApp (usb_camera_app.py)                                        *)
(***************************************************************************)
Names == <<"images", "videos">>
MkOutcomes == {"ok", "PermissionError", "Exception"}

\* create_directories, one turn of its loop: mk is what Path(path).mkdir
\* does, fb whether the fallback's mkdir succeeds (it is not in a try).
create_directory_USBCameraApp(s, name, mk, fb) ==
  IF s.exc # "none" \/ ~Has(s.config, "save_paths", name) THEN s
  ELSE IF mk = "ok" THEN s
  ELSE IF ~fb THEN Raise(s)
  ELSE Fail([s EXCEPT !.config["save_paths"].items[name] =
                        IF name = "videos" THEN CwdMovies ELSE CwdPictures])

\* create_directories: o = [mk : Names -> MkOutcomes, fb : Names -> BOOLEAN]
create_directories_USBCameraApp(s, o) ==
  IF s.config["save_paths"].kind # "dict" THEN Raise(s)
  ELSE create_directory_USBCameraApp(
         create_directory_USBCameraApp(s, "images", o.mk["images"], o.fb["images"]),
         "videos", o.mk["videos"], o.fb["videos"])

\* initialize_camera: opened is whether VideoCapture(camera_index) opened.
\* Reading a key the configuration lacks raises inside the try: the camera
\* stays open and False is returned.
initialize_camera_USBCameraApp(s, opened) ==
  IF ~opened THEN Return(Fail(AssignCamera(s, "Closed")), FALSE)
  ELSE IF \A k \in {"width", "height", "fps"} : Has(s.config, "camera", k)
    THEN Return(AssignCamera(s, "Open"), TRUE)
    ELSE Return(Fail(AssignCamera(s, "Open")), FALSE)

\* get_frame: every exception is caught and None returned
get_frame_USBCameraApp(s, read) ==
  IF s.camera = "Open" /\ read = "frame" THEN Return(s, TRUE)
  ELSE Return(Fail(s), FALSE)

save_image_USBCameraApp(s, frame, write, t) ==
  IF Has(s.config, "save_paths", "images") /\ write = "ok"
    THEN Write(s, Image(File("save_image", Get(s.config, "save_paths", "images"),
                             "USB_Image_", t, ".jpg"),
                        frame))
    ELSE Fail(s)

\* A start_video_recording that keeps the writer that did not open (without
\* line 191)
begin_recording_USBCameraApp_keeps_writer(s, start, t) ==
  IF ~Has(s.config, "save_paths", "videos")
          \/ ~Has(s.config, "video", "codec")
          \/ ~Has(s.config, "video", "fps")
    THEN Fail(s)
  ELSE IF ~FourccOk(Get(s.config, "video", "codec")) THEN Fail(s)
  ELSE IF start = "ok"
    THEN [Write(AssignWriter(s, "Open"),
                File("start_video_recording", Get(s.config, "save_paths", "videos"),
                     "USB_Video_", t, ".avi"))
            EXCEPT !.is_recording = TRUE, !.recording_start_time = <<t>>]
    ELSE Fail(AssignWriter(s, "Closed"))

\* start_video_recording past its guard: start is "ok" or "fail" (isOpened()
\* is False); every exception is caught
begin_recording_USBCameraApp(s, start, t) ==
  IF ~Has(s.config, "save_paths", "videos")
          \/ ~Has(s.config, "video", "codec")
          \/ ~Has(s.config, "video", "fps")
    THEN Fail(s)
  ELSE IF ~FourccOk(Get(s.config, "video", "codec")) THEN Fail(s)
  ELSE IF start = "ok"
    THEN [Write(AssignWriter(s, "Open"),
                File("start_video_recording", Get(s.config, "save_paths", "videos"),
                     "USB_Video_", t, ".avi"))
            EXCEPT !.is_recording = TRUE, !.recording_start_time = <<t>>]
    ELSE \* isOpened() is False: the writer is dropped
         Fail(AssignWriter(AssignWriter(s, "Closed"), "None"))

\* A start_video_recording without the guard of lines 168-169
start_video_recording_USBCameraApp_unguarded(s, start, t) ==
  begin_recording_USBCameraApp(s, start, t)

\* start_video_recording, lines 168-169: nothing is done while recording
start_video_recording_USBCameraApp(s, start, t) ==
  IF s.is_recording THEN s ELSE begin_recording_USBCameraApp(s, start, t)

\* A stop_video_recording that releases the writer and leaves is_recording
\* set (without line 206)
stop_video_recording_USBCameraApp_keeps_flag(s, stop) ==
  IF ~s.is_recording THEN s
  ELSE IF stop = "raise" THEN Fail(s)
  ELSE [s EXCEPT !.video_writer = "None"]

\* stop_video_recording: stop is "ok" or "raise" (video_writer.release()
\* raised: the except clause prints, the writer and the flag stay)
stop_video_recording_USBCameraApp(s, stop) ==
  IF ~s.is_recording THEN s
  ELSE IF stop = "raise" THEN Fail(s)
  ELSE [s EXCEPT !.video_writer = "None", !.is_recording = FALSE]

cleanup_USBCameraApp(s, stop) ==
  LET s1 == IF s.is_recording THEN stop_video_recording_USBCameraApp(s, stop) ELSE s
  IN  IF Truthy(s1.camera) THEN [s1 EXCEPT !.camera = "Closed"] ELSE s1

(***************************************************************************)
(* PiCameraApp (pi_camera_app.py)                                          *)
(***************************************************************************)
\* create_directories, one turn of its loop: mk is what target_path.mkdir
\* does (the target is the home directory's Pictures or Movies, whatever the
\* configuration names), desktop and cwd whether the mkdir of the Desktop
\* fallback and of the last resort succeed (the last is not in a try).
create_directory_PiCameraApp(s, name, mk, desktop, cwd) ==
  LET set(path) == [s EXCEPT !.config["save_paths"].items[name] = path] IN
  IF s.exc # "none" \/ ~Has(s.config, "save_paths", name) THEN s
  ELSE IF mk = "ok" THEN set(IF name = "images" THEN HomePictures ELSE HomeMovies)
  ELSE IF desktop
    THEN Fail(set(IF name = "videos" THEN DesktopMovies ELSE DesktopPictures))
  ELSE IF cwd THEN Fail(set(IF name = "videos" THEN CwdMovies ELSE CwdPictures))
  ELSE Raise(s)

\* create_directories: o = [mk, desktop, cwd], each a function on Names
create_directories_PiCameraApp(s, o) ==
  IF s.config["save_paths"].kind # "dict" THEN Raise(s)
  ELSE create_directory_PiCameraApp(
         create_directory_PiCameraApp(s, "images", o.mk["images"],
                                      o.desktop["images"], o.cwd["images"]),
         "videos", o.mk["videos"], o.desktop["videos"], o.cwd["videos"])

\* initialize_camera: ctor is "ok", "raise" (PiCamera() raises) or
\* "raise_after" (a setter raises); a key the configuration lacks raises after
\* the camera was created.  Nothing closes the camera then.
initialize_camera_PiCameraApp(s, ctor) ==
  IF ctor = "raise" THEN Return(Fail(s), FALSE)
  ELSE IF ctor = "ok" /\ \A k \in {"width", "height", "fps"} : Has(s.config, "camera", k)
    THEN Return(AssignCamera(s, "Open"), TRUE)
    ELSE Return(Fail(AssignCamera(s, "Open")), FALSE)

get_frame_PiCameraApp(s, read) ==
  IF s.camera = "Open" /\ read = "frame" THEN Return(s, TRUE)
  ELSE Return(Fail(s), FALSE)

\* save_image: camera.capture(filepath) writes the file
save_image_PiCameraApp(s, write, t) ==
  IF Has(s.config, "save_paths", "images") /\ s.camera = "Open" /\ write = "ok"
    THEN Write(s, Image(File("save_image", Get(s.config, "save_paths", "images"),
                             "PiCam_Image_", t, ".jpg"),
                        Frame))
    ELSE Fail(s)

start_video_recording_PiCameraApp(s, start, t) ==
  IF s.is_recording THEN s
  ELSE IF ~Has(s.config, "save_paths", "videos") \/ s.camera # "Open"
          \/ s.native_rec \/ start # "ok"
    THEN Fail(s)
    ELSE [Write(s, File("start_video_recording", Get(s.config, "save_paths", "videos"),
                        "PiCam_Video_", t, ".h264"))
            EXCEPT !.native_rec = TRUE, !.is_recording = TRUE,
                   !.recording_start_time = <<t>>]

\* stop_video_recording: when camera.stop_recording() raises, is_recording
\* keeps its value; picamera has closed its encoder either way.
stop_video_recording_PiCameraApp(s, stop) ==
  IF ~s.is_recording THEN s
  ELSE IF s.camera # "Open" \/ ~s.native_rec \/ stop = "raise"
    THEN Fail([s EXCEPT !.native_rec = FALSE])
    ELSE [s EXCEPT !.native_rec = FALSE, !.is_recording = FALSE]

cleanup_PiCameraApp(s, stop) ==
  LET s1 == IF s.is_recording THEN stop_video_recording_PiCameraApp(s, stop) ELSE s
  IN  IF Truthy(s1.camera)
        THEN [s1 EXCEPT !.camera = "Closed", !.native_rec = FALSE]
        ELSE s1

(***************************************************************************)
(* The methods by class.                                                   *)
(***************************************************************************)
create_directories(a, s, o) ==
  CASE a = "CameraApp"    -> create_directories_CameraApp(s, o.ok)
    [] a = "USBCameraApp" -> create_directories_USBCameraApp(s, [mk |-> o.mk, fb |-> o.cwd])
    [] a = "PiCameraApp"  -> create_directories_PiCameraApp(s, o)

initialize_camera(a, s, o) ==
  CASE a = "CameraApp"    -> initialize_camera_CameraApp(s, o)
    [] a = "USBCameraApp" -> initialize_camera_USBCameraApp(s, o.opened)
    [] a = "PiCameraApp"  -> initialize_camera_PiCameraApp(s, o.ctor)

get_frame(a, s, read) ==
  CASE a = "CameraApp"    -> get_frame_CameraApp(s, read)
    [] a = "USBCameraApp" -> get_frame_USBCameraApp(s, read)
    [] a = "PiCameraApp"  -> get_frame_PiCameraApp(s, read)

save_image(a, s, frame, write, t) ==
  CASE a = "CameraApp"    -> save_image_CameraApp(s, frame, write, t)
    [] a = "USBCameraApp" -> save_image_USBCameraApp(s, frame, write, t)
    [] a = "PiCameraApp"  -> save_image_PiCameraApp(s, write, t)

start_video_recording(a, s, start, t) ==
  CASE a = "CameraApp"    -> start_video_recording_CameraApp(s, start, t)
    [] a = "USBCameraApp" -> start_video_recording_USBCameraApp(s, start, t)
    [] a = "PiCameraApp"  -> start_video_recording_PiCameraApp(s, start, t)

stop_video_recording(a, s, stop) ==
  CASE a = "CameraApp"    -> stop_video_recording_CameraApp(s, stop)
    [] a = "USBCameraApp" -> stop_video_recording_USBCameraApp(s, stop)
    [] a = "PiCameraApp"  -> stop_video_recording_PiCameraApp(s, stop)

cleanup(a, s, stop) ==
  CASE a = "CameraApp"    -> cleanup_CameraApp(s, stop)
    [] a = "USBCameraApp" -> cleanup_USBCameraApp(s, stop)
    [] a = "PiCameraApp"  -> cleanup_PiCameraApp(s, stop)

(***************************************************************************)
(* The keyboard.  cv2.waitKey(1) & 0xFF gives a key or none; Binding is    *)
(* the branch of run()'s if/elif chain the key takes.                      *)
(***************************************************************************)
Keys == {"space", "v", "V", "t", "c", "q", "ESC", "none"}

Binding(a, key) ==
  IF a = "CameraApp"
    THEN CASE key = "space"           -> "save"
           [] key \in {"v", "V"}      -> "toggle"
           [] key \in {"t", "T"}      -> "overlay"
           [] key \in {"c", "C"}      -> "switch"
           [] key \in {"ESC", "q", "Q"} -> "quit"
           [] OTHER                   -> "none"
    ELSE CASE key = "q"     -> "quit"
           [] key = "space" -> "save"
           [] key = "v"     -> "toggle"
           [] OTHER         -> "none"

\* `not value` on the values of the model
Not(v) == IF v \in {"False", "0", ""} THEN "True" ELSE "False"

(***************************************************************************)
(* Inputs.                                                                 *)
(***************************************************************************)
\* The value a configuration file gives a key
FileValue(sec, k) ==
  CASE sec = "save_paths" /\ k = "images" -> "/data/img"
    [] sec = "save_paths" /\ k = "videos" -> "/mnt/rec.h264"
    [] OTHER -> "file"

\* The keys a file may give in a section: those of the class's defaults
FileKeys(a, sec) ==
  IF default_config(a)[sec].kind = "dict"
    THEN DOMAIN default_config(a)[sec].items
    ELSE {"show_status"}

SectionValues(a, sec) ==
  {Absent, Scalar} \cup
  {Dict([k \in K |-> FileValue(sec, k)]) : K \in SUBSET FileKeys(a, sec)}

Object(c, v, p, d) == [camera |-> c, video |-> v, save_paths |-> p, display |-> d]

\* Every file of the class: missing, not JSON, or an object with any of the
\* sections, each with any of its keys
AllFiles(a) ==
  {MissingFile, InvalidFile} \cup
  {ObjectFile(Object(c, v, p, d)) :
     c \in SectionValues(a, "camera"), v \in SectionValues(a, "video"),
     p \in SectionValues(a, "save_paths"), d \in SectionValues(a, "display")}

\* The files CameraApp is run with where the choice of the camera is looked
\* at: none, and one for each preferred_type that names a backend
CameraFiles ==
  {MissingFile,
   ObjectFile(Object(Dict([preferred_type |-> "usb"]), Absent, Absent, Absent)),
   ObjectFile(Object(Dict([preferred_type |-> "picam"]), Absent, Absent, Absent))}

\* The files the applications are run with
RunFiles(a) ==
  {MissingFile,
   ObjectFile(Object(Absent, Absent,
                     Dict([images |-> "/data/img", videos |-> "/mnt/rec.h264"]), Absent)),
   ObjectFile(Object(Absent, Dict([codec |-> "h264x", fps |-> "25"]), Absent, Absent))}
  \cup
  (IF a = "CameraApp"
     THEN {ObjectFile(Object(Dict([preferred_type |-> "usb"]), Absent, Absent, Absent))}
     ELSE {ObjectFile(Object(Absent, Absent, Dict([images |-> "/data/img"]), Absent)),
           ObjectFile(Object(Dict([width |-> "320"]), Absent, Absent, Absent))})

DirOutcomes(a) ==
  LET AllOk == [n \in {"images", "videos"} |-> "ok"]
      AllTrue == [n \in {"images", "videos"} |-> TRUE]
      Mk == [{"images", "videos"} -> MkOutcomes]
      Fb == [{"images", "videos"} -> BOOLEAN]
  IN  CASE a = "CameraApp" ->
             {[ok |-> b, mk |-> AllOk, desktop |-> AllTrue, cwd |-> AllTrue] : b \in BOOLEAN}
        [] a = "USBCameraApp" ->
             {[ok |-> TRUE, mk |-> m, desktop |-> AllTrue, cwd |-> f] : m \in Mk, f \in Fb}
        [] a = "PiCameraApp" ->
             {[ok |-> TRUE, mk |-> m, desktop |-> d, cwd |-> f] : m \in Mk, d \in Fb, f \in Fb}

\* What the libraries answer to initialize_camera.  PiCamera() in
\* detect_cameras raises while this object holds the camera.
\* The probes with working cameras only: an index has a camera that works or
\* has none (one that gives no frame or raises is passed over like one that
\* is absent)
WorkingProbes == {p \in Probes : \A i \in DOMAIN p.usb : p.usb[i] \in {"absent", "ok"}}
\* The probes of the runs: a machine whose only USB camera, if any, is at
\* index 0
RunProbes == {p \in WorkingProbes : \A i \in DOMAIN p.usb : i > 0 => p.usb[i] = "absent"}
NoProbe == [usb |-> [i \in 0 .. NumIndices - 1 |-> "absent"], picam |-> FALSE]
CameraOutcomes(probes) ==
  {o \in [probe : probes, opened : BOOLEAN, ctor : {"ok", "raise"}] :
     picam = "Open" => ~o.probe.picam}
InitOutcomes ==
  CASE app = "CameraApp" -> CameraOutcomes(RunProbes)
    [] app = "USBCameraApp" ->
         [probe : {NoProbe}, opened : BOOLEAN, ctor : {"ok"}]
    [] app = "PiCameraApp" ->
         [probe : {NoProbe}, opened : {TRUE}, ctor : {"ok", "raise", "raise_after"}]

\* What the libraries can answer where the answer is asked for
StartOutcomes == IF is_recording THEN {"ok"} ELSE {"ok", "fail", "raise"}
StopOutcomes == IF is_recording THEN {"ok", "raise"} ELSE {"ok"}
SwitchOutcomes ==
  IF is_recording THEN {[probe |-> NoProbe, opened |-> TRUE, ctor |-> "ok"]}
                  ELSE InitOutcomes

(***************************************************************************)
(* The launcher (camera_launcher.py)                                       *)
(***************************************************************************)
\* check_pi_camera: ctor is what importing picamera2 and Picamera2() do
PiOutcomes == {"ok", "import_error", "raise"}
check_pi_camera(ctor) == ctor = "ok"

\* check_usb_camera: usb[i] is what index i does ("absent": does not open,
\* "noframe": opens and gives no frame, "ok", "raise"); the first index that
\* delivers a frame is returned, and an exception ends the search with
\* (False, None)
UsbOutcomes == [0 .. LauncherIndices - 1 -> {"absent", "noframe", "ok", "raise"}]
RECURSIVE check_usb_from(_, _)
check_usb_from(i, usb) ==
  IF i >= LauncherIndices THEN [available |-> FALSE, index |-> <<>>]
  ELSE IF usb[i] = "raise" THEN [available |-> FALSE, index |-> <<>>]
  ELSE IF usb[i] = "ok" THEN [available |-> TRUE, index |-> <<i>>]
  ELSE check_usb_from(i + 1, usb)
check_usb_camera(usb) == check_usb_from(0, usb)

\* subprocess.run([sys.executable, script, ...])
PiCommand == [script |-> "pi_camera_app.py", args |-> <<>>]
UsbCommand(usb_index) == [script |-> "usb_camera_app.py", args |-> usb_index]
Launch(l, command) == [l EXCEPT !.launched = Append(@, command)]

\* main, lines 41-65: the checks, and the launch when one type only is found
main_start(l, ctor, usb) ==
  LET pi == check_pi_camera(ctor)
      found == check_usb_camera(usb)
      l1 == [l EXCEPT !.pi_camera_available = pi,
                      !.usb_camera_available = found.available,
                      !.usb_index = found.index]
  IN  IF ~pi /\ ~found.available THEN [l1 EXCEPT !.pc = "done"]
      ELSE IF pi /\ ~found.available THEN [Launch(l1, PiCommand) EXCEPT !.pc = "done"]
      ELSE IF found.available /\ ~pi
        THEN [Launch(l1, UsbCommand(found.index)) EXCEPT !.pc = "done"]
      ELSE [l1 EXCEPT !.pc = "prompt"]

\* One turn of the loop with a launch that does not leave the loop (the loop
\* without the breaks of lines 72 and 76)
main_choice_no_break(l, choice) ==
  LET l1 == [l EXCEPT !.inputs = Append(@, choice)]
  IN  CASE choice = "1" -> Launch(l1, PiCommand)
        [] choice = "2" -> Launch(l1, UsbCommand(l.usb_index))
        [] choice = "KeyboardInterrupt" -> [l1 EXCEPT !.pc = "done"]
        [] choice = "EOFError" -> [l1 EXCEPT !.pc = "done", !.exc = "EOFError"]
        [] OTHER -> l1

\* main, lines 66-81: one turn of the loop.  choice is the line input()
\* returns, or the exception it raises: KeyboardInterrupt is caught and ends
\* the loop, EOFError (standard input closed) leaves main.
main_choice(l, choice) ==
  LET l1 == [l EXCEPT !.inputs = Append(@, choice)]
  IN  CASE choice = "1" -> [Launch(l1, PiCommand) EXCEPT !.pc = "done"]
        [] choice = "2" -> [Launch(l1, UsbCommand(l.usb_index)) EXCEPT !.pc = "done"]
        [] choice = "KeyboardInterrupt" -> [l1 EXCEPT !.pc = "done"]
        [] choice = "EOFError" -> [l1 EXCEPT !.pc = "done", !.exc = "EOFError"]
        [] OTHER -> l1

\* What input() gives
Lines == {"1", "2", "", "3", " 1"}
Choices == Lines \cup {"KeyboardInterrupt", "EOFError"}

NoLauncher ==
  [pc |-> "idle", pi_camera_available |-> FALSE, usb_camera_available |-> FALSE,
   usb_index |-> <<>>, inputs |-> <<>>, launched |-> <<>>, exc |-> "none"]

TypeOK ==
  /\ app \in Apps
  /\ launcher.pc \in {"idle", "start", "prompt", "done"}
  /\ Len(launcher.inputs) <= MaxInputs
  /\ pc \in {"new", "loaded", "constructed", "construct_failed", "running", "ended", "deleted",
           "detected"}
  /\ exit_path \in {"none", "startup_failed", "quit", "interrupt", "error", "frame_failed"}
  /\ is_recording \in BOOLEAN
  /\ video_writer \in {"None", "Open", "Closed", "True"}
  /\ camera_type \in {"None", "usb", "picam"}
  /\ cap \in {"None", "Open", "Closed"}
  /\ cap_index \in {<<>>} \cup {<<i>> : i \in 0 .. NumIndices - 1}
  /\ Len(call) <= 1
  /\ picam \in {"None", "Open"}
  /\ raw_capture \in {"None", "Array"}
  /\ camera \in {"None", "Open", "Closed"}
  /\ native_rec \in BOOLEAN
  /\ leaked_caps \in 0 .. MaxLeaked
  /\ leaked_writers \in 0 .. MaxLeaked
  /\ now \in 0 .. MaxClock
  /\ Cardinality(written) <= 1
  /\ saved.watch \in BOOLEAN
  /\ screen.t_presses \in {0, 1}
  /\ screen.t_before \in {0, 1}
  /\ screen.shown \in {<<>>, <<Frame>>, <<draw_overlay_info(Frame)>>}
  /\ screen.pending \in {"none", "q"}
  /\ screen.missed \in {0, 1}
  /\ \A r \in saved.files : r.at \in 0 .. MaxClock /\ r.file.op = "save_image"

(***************************************************************************)
(* Init: the object as __init__ finds it, before load_config.              *)
(***************************************************************************)
InitFields ==
  /\ app \in Apps
  /\ pc = "new"
  /\ exit_path = "none"
  /\ config = [s \in Sections |-> Absent]
  /\ is_recording = FALSE
  /\ video_writer = "None"
  /\ recording_start_time = IF app = "CameraApp" THEN <<>> ELSE <<0>>
  /\ camera_type = "None"
  /\ cap = "None"
  /\ cap_index = <<>>
  /\ picam = "None"
  /\ raw_capture = "None"
  /\ camera = "None"
  /\ native_rec = FALSE
  /\ leaked_caps = 0
  /\ leaked_writers = 0
  /\ written = {}
  /\ now = 0
  /\ call = <<>>
  /\ screen = [shown |-> <<>>, t_before |-> 0, t_presses |-> 0,
               pending |-> "none", missed |-> 0]
  /\ last = [op |-> "none", key |-> "none", failed |-> FALSE, rec |-> FALSE]

Init ==
  /\ InitFields
  /\ launcher = NoLauncher
  /\ config_file \in RunFiles(app)
  /\ saved = [watch |-> FALSE, files |-> {}]

InitConfig ==
  /\ InitFields
  /\ launcher = NoLauncher
  /\ config_file \in AllFiles(app)
  /\ saved = [watch |-> FALSE, files |-> {}]

\* The runs whose images are kept in the history
InitSaved ==
  /\ InitFields
  /\ launcher = NoLauncher
  /\ config_file \in RunFiles(app)
  /\ saved = [watch |-> TRUE, files |-> {}]

Did(op, key, failed) ==
  last' = [op |-> op, key |-> key, failed |-> failed, rec |-> is_recording]

Bounded(s) ==
  /\ s.leaked_caps <= MaxLeaked
  /\ s.leaked_writers <= MaxLeaked

\* An iteration that shows its frame and handles a key: cv2.imshow, then
\* cv2.waitKey, which gives the key that is pending when there is one
Show(key) ==
  /\ screen.pending # "none" => key = screen.pending
  /\ screen' = [shown |-> <<Displayed>>,
                t_before |-> screen.t_presses,
                t_presses |-> IF Binding(app, key) = "overlay"
                                THEN (screen.t_presses + 1) % 2
                                ELSE screen.t_presses,
                pending |-> "none",
                missed |-> 0]

(***************************************************************************)
(* Actions.                                                                *)
(***************************************************************************)
\* self.config = self.load_config(config_file), on its own
LoadConfig ==
  /\ pc = "new"
  /\ \E wrote \in BOOLEAN :
       /\ config_file' = file_after_load(app, config_file, wrote)
       /\ config' = load_config(app, config_file)
  /\ pc' = "loaded"
  /\ Did("load_config", "none", FALSE)
  /\ UNCHANGED <<launcher, app, exit_path, is_recording, video_writer, recording_start_time,
                 camera_type, cap, cap_index, picam, raw_capture, camera, native_rec,
                 leaked_caps, leaked_writers, written, saved, now, call, screen>>

\* __init__: load_config, then the directories.  wrote: load_config could
\* write the default file; o: what the directory calls do.
ConstructWith(wrote, o) ==
  LET s0 == [Cur EXCEPT !.config = load_config(app, config_file)]
      s1 == create_directories(app, s0, o)
  IN  /\ pc = "new"
      /\ Commit(s1)
      /\ config_file' = file_after_load(app, config_file, wrote)
      /\ pc' = IF s1.exc = "none" THEN "constructed" ELSE "construct_failed"
      /\ Did("__init__", "none", s1.err)
      /\ UNCHANGED <<launcher, app, exit_path, now, call, screen>>

Construct == \E wrote \in BOOLEAN, o \in DirOutcomes(app) : ConstructWith(wrote, o)

\* run(), up to the loop: initialize_camera, and return when it fails
RunStartWith(o) ==
  /\ pc = "constructed"
  /\ LET s1 == initialize_camera(app, Cur, o)
     IN  /\ Commit(s1)
         /\ pc' = IF s1.ret THEN "running" ELSE "ended"
         /\ exit_path' = IF s1.ret THEN "none" ELSE "startup_failed"
         /\ Did("initialize_camera", "none", s1.err)
  /\ UNCHANGED <<launcher, app, config_file, now, call, screen>>

RunStart == \E o \in InitOutcomes : RunStartWith(o)

\* run() of CameraApp on a machine with cameras at any of the indices
RunStartAny ==
  /\ app = "CameraApp"
  /\ \E o \in CameraOutcomes(Probes) : RunStartWith(o)

\* The loop is left: the finally clause runs cleanup and run() ends
Finish(s, stop, path, op, key) ==
  LET s1 == cleanup(app, [s EXCEPT !.exc = "none"], stop)
  IN  /\ Commit(s1)
      /\ pc' = "ended"
      /\ exit_path' = path
      /\ Did(op, key, s1.err)
      /\ UNCHANGED <<launcher, app, config_file, now, call>>

\* The loop goes on with the next iteration
Continue(s, op, key) ==
  /\ Bounded(s)
  /\ Commit(s)
  /\ Did(op, key, s.err)
  /\ UNCHANGED <<launcher, app, pc, exit_path, config_file, now, call>>

\* A handler has run: an exception it let escape ends the loop
Handled(s, op, key) ==
  IF s.exc # "none" THEN Finish(s, "ok", "error", op, key)
                    ELSE Continue(s, op, key)

FrameOk == LET s1 == get_frame(app, Cur, "frame") IN s1.exc = "none" /\ s1.ret

\* An iteration in which get_frame gives no frame or raises
FrameFail ==
  /\ pc = "running"
  /\ \E read \in {"frame", "none", "raise"}, stop \in StopOutcomes :
       LET s1 == get_frame(app, Cur, read)
       IN  /\ s1.exc # "none" \/ ~s1.ret
           /\ IF app = "CameraApp"
                THEN Finish(s1, stop, IF s1.exc # "none" THEN "error" ELSE "frame_failed",
                            "get_frame", "none")
                ELSE Continue(s1, "get_frame", "none")
  /\ screen' = [screen EXCEPT !.missed = (@ + 1) % 2]

\* An iteration in which drawing or showing the frame raises
DisplayError ==
  /\ pc = "running"
  /\ FrameOk
  /\ \E stop \in StopOutcomes : Finish(Raise(Cur), stop, "error", "imshow", "none")
  /\ UNCHANGED screen

\* The iterations in which a frame is read and shown, by the key waitKey gives
KeySave ==
  /\ pc = "running"
  /\ FrameOk
  /\ \E key \in Keys, write \in {"ok", "fail", "raise"} :
       /\ Binding(app, key) = "save"
       /\ Handled(save_image(app, Cur, Displayed, write, now), "save_image", key)
       /\ Show(key)

KeyToggle ==
  /\ pc = "running"
  /\ FrameOk
  /\ \E key \in Keys, start \in StartOutcomes, stop \in StopOutcomes :
       /\ Binding(app, key) = "toggle"
       /\ IF is_recording
            THEN Handled(stop_video_recording(app, Cur, stop), "stop_video_recording", key)
            ELSE Handled(start_video_recording(app, Cur, start, now),
                         "start_video_recording", key)
       /\ Show(key)

KeyOverlay ==
  /\ pc = "running"
  /\ FrameOk
  /\ \E key \in Keys :
       /\ Binding(app, key) = "overlay"
       /\ Continue([Cur EXCEPT !.config["display"].items["show_status"] = Not(@)],
                   "overlay", key)
       /\ Show(key)

KeySwitchWith(key, o) ==
  /\ pc = "running"
  /\ FrameOk
  /\ Binding(app, key) = "switch"
  /\ Continue(switch_camera(Cur, o), "switch_camera", key)
  /\ Show(key)

KeySwitch == \E key \in Keys, o \in SwitchOutcomes : KeySwitchWith(key, o)

\* The c key on a machine with cameras at any of the indices
KeySwitchAny ==
  /\ ~is_recording
  /\ \E key \in Keys, o \in CameraOutcomes(Probes) : KeySwitchWith(key, o)

KeyQuit ==
  /\ pc = "running"
  /\ FrameOk
  /\ \E key \in Keys, stop \in StopOutcomes :
       /\ Binding(app, key) = "quit"
       /\ Finish(Cur, stop, "quit", "quit", key)
       /\ Show(key)

KeyOther ==
  /\ pc = "running"
  /\ FrameOk
  /\ \E key \in Keys :
       /\ Binding(app, key) = "none"
       /\ Continue(Cur, "none", key)
       /\ Show(key)

\* Ctrl-C while the loop runs
Interrupt ==
  /\ pc = "running"
  /\ \E stop \in StopOutcomes : Finish(Cur, stop, "interrupt", "KeyboardInterrupt", "none")
  /\ UNCHANGED screen

\* The two methods called on their own, whatever the recording state
CallStart ==
  /\ pc = "running"
  /\ \E start \in StartOutcomes :
       Handled(start_video_recording(app, Cur, start, now), "call_start", "none")
  /\ UNCHANGED screen

CallStop ==
  /\ pc = "running"
  /\ \E stop \in StopOutcomes :
       Handled(stop_video_recording(app, Cur, stop), "call_stop", "none")
  /\ UNCHANGED screen

\* detect_cameras called on the object as constructed, as the test script
\* does, and nothing after it
DetectCameras ==
  /\ app = "CameraApp"
  /\ pc = "constructed"
  /\ \E probe \in Probes :
       call' = <<[args |-> probe, result |-> detect_cameras(probe)]>>
  /\ pc' = "detected"
  /\ Did("detect_cameras", "none", FALSE)
  /\ UNCHANGED <<launcher, app, exit_path, config_file, config, is_recording, video_writer,
                 recording_start_time, camera_type, cap, cap_index, picam,
                 raw_capture, camera, native_rec, leaked_caps, leaked_writers,
                 written, saved, now, screen>>

\* CameraApp.__del__
Del ==
  /\ app = "CameraApp"
  /\ pc = "ended"
  /\ Commit(cleanup_camera(Cur))
  /\ pc' = "deleted"
  /\ Did("__del__", "none", FALSE)
  /\ UNCHANGED <<launcher, app, exit_path, config_file, now, call, screen>>

\* The interpreter frees the objects nothing refers to
Collect ==
  /\ leaked_caps + leaked_writers > 0
  /\ leaked_caps' = 0
  /\ leaked_writers' = 0
  /\ UNCHANGED <<launcher, app, pc, exit_path, config_file, config, is_recording, video_writer,
                 recording_start_time, camera_type, cap, cap_index, picam,
                 raw_capture, camera, native_rec, written, saved, now, call, screen,
                 last>>

\* Time passes while the loop runs
Tick ==
  /\ pc = "running"
  /\ now < MaxClock
  /\ now' = now + 1
  /\ UNCHANGED <<launcher, app, pc, exit_path, config_file, config, is_recording, video_writer,
                 recording_start_time, camera_type, cap, cap_index, picam,
                 raw_capture, camera, native_rec, leaked_caps, leaked_writers,
                 written, saved, call, screen, last>>

\* The q key is pressed while the loop runs
PressQ ==
  /\ pc = "running"
  /\ screen.pending = "none"
  /\ screen' = [screen EXCEPT !.pending = "q"]
  /\ UNCHANGED <<launcher, app, pc, exit_path, config_file, config, is_recording,
                 video_writer, recording_start_time, camera_type, cap, cap_index,
                 picam, raw_capture, camera, native_rec, leaked_caps, leaked_writers,
                 written, saved, now, call, last>>

\* One iteration of the loop of USBCameraApp.run or PiCameraApp.run: without
\* a frame, or with a frame shown and the key handled
Iteration == FrameFail \/ KeySave \/ KeyToggle \/ KeyQuit \/ KeyOther

\* camera_launcher.main up to its first return or its first prompt
LauncherStart ==
  /\ launcher.pc = "start"
  /\ \E ctor \in PiOutcomes, usb \in UsbOutcomes :
       launcher' = main_start(launcher, ctor, usb)
  /\ UNCHANGED objvars

\* One turn of the prompt loop
LauncherInput ==
  /\ launcher.pc = "prompt"
  /\ Len(launcher.inputs) < MaxInputs
  /\ \E choice \in Choices : launcher' = main_choice(launcher, choice)
  /\ UNCHANGED objvars

Next ==
  \/ Construct
  \/ RunStart
  \/ FrameFail
  \/ DisplayError
  \/ KeySave
  \/ KeyToggle
  \/ KeyOverlay
  \/ KeySwitch
  \/ KeyQuit
  \/ KeyOther
  \/ Interrupt
  \/ CallStart
  \/ CallStop
  \/ Del
  \/ Collect
  \/ Tick

Spec == Init /\ [][Next]_vars

\* The runs in which images are saved and the camera is switched, as the
\* clock advances
NextSaved ==
  \/ Construct
  \/ RunStart
  \/ KeySave
  \/ KeySwitch
  \/ Tick

SpecSaved == InitSaved /\ [][NextSaved]_vars

\* CameraApp and the cameras of the machine: detection, the choice at the
\* start of run() and the switch
InitCamera ==
  /\ InitFields
  /\ launcher = NoLauncher
  /\ app = "CameraApp"
  /\ config_file \in CameraFiles
  /\ saved = [watch |-> FALSE, files |-> {}]

NextCamera ==
  \/ Construct
  \/ DetectCameras
  \/ RunStartAny
  \/ KeySwitchAny

SpecCamera == InitCamera /\ [][NextCamera]_vars

\* The launcher's process: no application object is made in it (the
\* application runs as a child process)
InitLauncher ==
  /\ InitFields
  /\ app = "CameraApp"
  /\ config_file = MissingFile
  /\ saved = [watch |-> FALSE, files |-> {}]
  /\ launcher = [NoLauncher EXCEPT !.pc = "start"]

NextLauncher ==
  \/ LauncherStart
  \/ LauncherInput

SpecLauncher == InitLauncher /\ [][NextLauncher]_vars

\* USBCameraApp and PiCameraApp with a q key pressed at some time: the loop
\* keeps iterating (weak fairness of the iteration), whatever the camera gives
InitQuit ==
  /\ InitFields
  /\ app \in {"USBCameraApp", "PiCameraApp"}
  /\ config_file \in RunFiles(app)
  /\ saved = [watch |-> FALSE, files |-> {}]
  /\ launcher = NoLauncher

NextQuit ==
  \/ Construct
  \/ RunStart
  \/ PressQ
  \/ FrameFail
  \/ KeySave
  \/ KeyToggle
  \/ KeyQuit
  \/ KeyOther

SpecQuit == InitQuit /\ [][NextQuit]_vars /\ WF_vars(Iteration)

NextConfig == LoadConfig

SpecConfig == InitConfig /\ [][NextConfig]_vars

(***************************************************************************)
(* Properties.                                                             *)
(***************************************************************************)
\* What a start or stop that does nothing leaves alone: the recording
\* fields, every handle, the writers the libraries hold, and no file
NoRecordingEffect ==
  /\ UNCHANGED <<is_recording, video_writer, recording_start_time, camera_type,
                 cap, cap_index, picam, raw_capture, camera, native_rec,
                 leaked_caps, leaked_writers, pc, exit_path, config>>
  /\ written' = {}

\* C1: in each of the three applications, stop_video_recording called while
\* idle and start_video_recording called while recording change nothing:
\* is_recording, video_writer, recording_start_time and the camera handles
\* keep their values, and no writer is opened or released.
C1_StartStopNoOp ==
  [][((CallStop /\ ~is_recording) \/ (CallStart /\ is_recording))
       => NoRecordingEffect]_vars

\* start_video_recording was called while a recording was running, and the
\* recording is still the one that ran
C1_Witness ==
  /\ pc = "running"
  /\ last.op = "call_start"
  /\ last.rec
  /\ is_recording

\* The recording sessions the libraries hold for the object: the open video
\* write-handles, referred to or not, and the camera's own recording
OpenWriteHandles == (IF video_writer = "Open" THEN 1 ELSE 0) + leaked_writers
NativeRecordings == IF native_rec THEN 1 ELSE 0

\* C2: whatever keys were pressed and whatever the library calls answered,
\* at most one recording session (an open video write-handle or a recording
\* of the camera itself) exists at a time.
C2_AtMostOneSession == OpenWriteHandles + NativeRecordings <= 1

\* A session exists after a toggle key, and start was called again
C2_Witness ==
  /\ pc = "running"
  /\ is_recording
  /\ OpenWriteHandles + NativeRecordings = 1
  /\ last.op = "call_start"

\* No handle the object refers to is open
HandlesReleased ==
  /\ cap # "Open"
  /\ picam # "Open"
  /\ camera # "Open"
  /\ video_writer # "Open"
  /\ ~native_rec

\* C3: once run() has ended by a quit key, by a keyboard interrupt or by an
\* error raised inside the loop, no camera handle and no video write-handle
\* the application opened is still open.
C3_ReleasedOnExit ==
  (pc = "ended" /\ exit_path \in {"quit", "interrupt", "error"}) => HandlesReleased

\* C4, as stated: a toggle key handled while idle leaves the application
\* recording, and one handled while recording leaves it idle.
C4_ToggleAlternates ==
  last.op \in {"start_video_recording", "stop_video_recording"}
    => is_recording = ~last.rec

\* C4, amended: a toggle key handled while idle leaves the application
\* recording when the library calls of start_video_recording succeed, and one
\* handled while recording leaves it idle when those of stop_video_recording
\* succeed.  When the start fails, USBCameraApp and PiCameraApp stay idle;
\* when the stop fails, PiCameraApp keeps is_recording set.
C4_ToggleAlternatesOnSuccess ==
  /\ (last.op = "start_video_recording" /\ ~last.failed)
       => (~last.rec /\ is_recording)
  /\ (last.op = "stop_video_recording" /\ ~last.failed)
       => (last.rec /\ ~is_recording)
  /\ (last.op = "start_video_recording" /\ last.failed /\ app # "CameraApp")
       => ~is_recording
  /\ (last.op = "stop_video_recording" /\ last.failed /\ app = "PiCameraApp")
       => is_recording

\* The toggle key has stopped a recording an earlier toggle key started
C4_Witness ==
  /\ pc = "running"
  /\ last.op = "stop_video_recording"
  /\ ~last.failed
  /\ last.rec
  /\ ~is_recording

\* A JSON object whose sections, where it has them, are objects
ObjectSections(file) ==
  /\ file.kind = "object"
  /\ \A sec \in Sections : file.obj[sec].kind \in {"dict", "absent"}

FileSets(file, sec, k) ==
  file.obj[sec].kind = "dict" /\ k \in DOMAIN file.obj[sec].items

\* Every default key of class a is in cfg, with the file's value when the
\* file sets the key and the default otherwise
KeepsDefaultKeys(a, file, cfg) ==
  \A sec \in Sections :
    default_config(a)[sec].kind = "dict" =>
      \A k \in DOMAIN default_config(a)[sec].items :
        /\ Has(cfg, sec, k)
        /\ Get(cfg, sec, k) = IF FileSets(file, sec, k)
                                THEN file.obj[sec].items[k]
                                ELSE default_config(a)[sec].items[k]

\* C5: for every JSON object file whose sections are objects,
\* CameraApp.load_config returns a configuration with every default key at
\* both levels, carrying the file's value when the file sets the key and the
\* default otherwise.
C5_CameraAppKeepsDefaults ==
  (pc = "loaded" /\ app = "CameraApp" /\ ObjectSections(config_file))
    => KeepsDefaultKeys("CameraApp", config_file, config)

\* CameraApp has loaded a file that gives camera.width and not camera.height
C5_Witness ==
  /\ pc = "loaded"
  /\ app = "CameraApp"
  /\ ObjectSections(config_file)
  /\ FileSets(config_file, "camera", "width")
  /\ ~FileSets(config_file, "camera", "height")
  /\ Get(config, "camera", "width") = FileValue("camera", "width")

\* C6: USBCameraApp.load_config and PiCameraApp.load_config return every
\* default key when the file gives only some keys of a section: the missing
\* keys of the section are there with their default values.
C6_TopLevelKeepsDefaults ==
  (pc = "loaded" /\ app \in {"USBCameraApp", "PiCameraApp"}
     /\ ObjectSections(config_file))
    => \A sec \in Sections :
         (/\ default_config(app)[sec].kind = "dict"
          /\ \E k \in DOMAIN default_config(app)[sec].items :
               FileSets(config_file, sec, k))
         => \A k \in DOMAIN default_config(app)[sec].items :
              /\ Has(config, sec, k)
              /\ ~FileSets(config_file, sec, k)
                   => Get(config, sec, k) = default_config(app)[sec].items[k]

\* C7: in each application, an iteration of the run loop in which get_frame
\* fails is skipped: the loop keeps polling and the application does not exit.
C7_FrameFailureSkipped == last.op = "get_frame" => pc = "running"

\* C8: in each application, a failure of save_image, start_video_recording or
\* stop_video_recording under its key is caught and skipped: the run loop
\* keeps polling.
C8_HandlerFailureSkipped ==
  (last.op \in {"save_image", "start_video_recording", "stop_video_recording"}
     /\ last.failed)
    => pc = "running"

\* The directory calls of o: a primary directory could not be created, and
\* the secondary one of every such directory can
PrimaryFailed(o, name) == IF app = "CameraApp" THEN ~o.ok ELSE o.mk[name] # "ok"
SecondaryUsable(o, name) ==
  CASE app = "CameraApp"    -> TRUE
    [] app = "USBCameraApp" -> o.cwd[name]
    [] app = "PiCameraApp"  -> o.desktop[name] \/ o.cwd[name]
SecondaryPaths == {DesktopPictures, DesktopMovies, CwdPictures, CwdMovies}

\* C9: in each application, when a primary images or videos directory cannot
\* be created, construction still succeeds and config["save_paths"] holds a
\* secondary path for that entry afterwards.
C9_DirectoryFallback ==
  [][\A wrote \in BOOLEAN, o \in DirOutcomes(app) :
       (/\ ConstructWith(wrote, o)
        /\ \E name \in {"images", "videos"} : PrimaryFailed(o, name)
        /\ \A name \in {"images", "videos"} :
             PrimaryFailed(o, name) => SecondaryUsable(o, name))
       => /\ pc' = "constructed"
          /\ \A name \in {"images", "videos"} :
               PrimaryFailed(o, name) =>
                 /\ Has(config', "save_paths", name)
                 /\ Get(config', "save_paths", name) \in SecondaryPaths]_vars

\* The directory the loaded configuration gives for an entry of save_paths:
\* the one the object holds, which is the one the file names when it names
\* one and no secondary directory took its place
ConfiguredDirectory(dir, name) ==
  /\ Has(config, "save_paths", name)
  /\ dir = Get(config, "save_paths", name)
  /\ FileSets(config_file, "save_paths", name)
       => (dir = config_file.obj["save_paths"].items[name] \/ dir \in SecondaryPaths)

\* C10: in each application, a saved image is Image<timestamp>.jpg in the
\* images directory of the configuration and a recorded video is
\* Video<timestamp>.<container> in its videos directory.
C10_FileNames ==
  \A f \in written :
    IF f.op = "save_image"
      THEN /\ f.prefix = "Image"
           /\ f.ext = ".jpg"
           /\ ConfiguredDirectory(f.dir, "images")
      ELSE /\ f.prefix = "Video"
           /\ f.ext \in {".mp4", ".h264", ".avi"}
           /\ ConfiguredDirectory(f.dir, "videos")

\* The second a clock reading lies in (the clock counts half seconds)
Second(t) == t \div 2

\* The path of a file: directory and file name
Path(f) == <<f.dir, f.prefix, f.ts, f.ext>>

\* C11: any two save_image calls made at different clock seconds write
\* different paths, and two made within the same second write the same path:
\* the path depends on the images directory and the second only.
C11_UniquePerSecond ==
  \A r1 \in saved.files, r2 \in saved.files :
    (Second(r1.at) = Second(r2.at)) <=> (Path(r1.file) = Path(r2.file))

\* Images were saved at two readings of one second and in another second
C11_Witness ==
  \E r1 \in saved.files, r2 \in saved.files, r3 \in saved.files :
    /\ r1.at # r2.at
    /\ Second(r1.at) = Second(r2.at)
    /\ Second(r3.at) # Second(r1.at)

\* C12: in each application, a q or ESC key handled by the run loop ends the
\* loop, with cleanup run, and no other key ends it.
C12_QuitKeys ==
  /\ last.key \in {"q", "ESC"} => (pc = "ended" /\ exit_path = "quit")
  /\ last.key \in Keys \ {"q", "ESC", "none"} => pc = "running"

\* C13: in CameraApp, a frame shown after an odd number of t keys carries no
\* overlay text, and one shown after an even number carries it.
C13_OverlayToggles ==
  (app = "CameraApp" /\ screen.shown # <<>>)
    => (screen.shown[1].overlay <=> screen.t_before = 0)

\* A backend other than the current one that initialize_camera can open:
\* a USB camera that opens, or a Pi Camera whose constructor succeeds
OtherType == IF camera_type = "picam" THEN "usb" ELSE "picam"
OtherAvailable(o) ==
  IF camera_type = "picam"
    THEN \E i \in DOMAIN o.probe.usb : o.probe.usb[i] \in Delivered /\ o.opened
    ELSE o.probe.picam /\ o.ctor = "ok"

\* C14: in CameraApp, a c key handled while not recording, on a machine where
\* the backend type other than the current one is available, leaves
\* camera_type at that other type.
C14_SwitchesBackend ==
  [][\A key \in Keys, o \in CameraOutcomes(Probes) :
       (/\ KeySwitchWith(key, o)
        /\ ~is_recording
        /\ camera_type \in {"usb", "picam"}
        /\ OtherAvailable(o))
         => camera_type' = OtherType]_vars

\* C15 (startup part): a run() whose initialize_camera reported failure has
\* ended without a frame shown, a key handled or a file written.
C15_StartupFailureEndsRun ==
  exit_path = "startup_failed"
    => (pc \in {"ended", "deleted"} /\ screen.shown = <<>> /\ last.key = "none" /\ written = {})

\* C15: a failure is fatal only at startup: a run() whose initialize_camera
\* reported failure returns without a frame shown, a key handled or a file
\* written, and a run() whose startup succeeded ends only on a quit key or a
\* keyboard interrupt.
C15_FatalOnlyAtStartup ==
  /\ C15_StartupFailureEndsRun
  /\ (pc = "ended" /\ exit_path # "startup_failed") => exit_path \in {"quit", "interrupt"}

\* The indices a sequence lists
Listed(seq) == {seq[k] : k \in DOMAIN seq}

C17_SavedWithoutOverlay ==
  \A f \in written :
    (app = "CameraApp" /\ last.key = "space" /\ f.op = "save_image") => ~f.overlay

\* Reading or merging the file raises: it is no JSON, or one of its sections
\* is no object
LoadRaises(file) ==
  \/ file.kind = "invalid"
  \/ file.kind = "object" /\ \E sec \in Sections : file.obj[sec].kind = "scalar"

\* C18: when reading or merging the configuration file raises,
\* CameraApp.load_config returns the built-in default configuration, with no
\* value taken from the file.
C18_DefaultsOnError ==
  (pc = "loaded" /\ app = "CameraApp" /\ LoadRaises(config_file))
    => config = default_config_CameraApp

\* The rule of the choice: what the claim says initialize_camera takes, by
\* preferred_type and what is detected
UsbDetected(o) == {i \in DOMAIN o.probe.usb : o.probe.usb[i] \in Delivered}
Lowest(S) == CHOOSE i \in S : \A j \in S : i <= j
Chosen(o) ==
  LET preferred == Get(config, "camera", "preferred_type")
  IN  IF preferred = "auto"
        THEN IF o.probe.picam THEN "picam"
             ELSE IF UsbDetected(o) # {} THEN "usb" ELSE "none"
      ELSE IF preferred = "picam" /\ o.probe.picam THEN "picam"
      ELSE IF preferred = "usb" /\ UsbDetected(o) # {} THEN "usb"
      ELSE "none"

\* What the step of initialize_camera leaves: the Pi Camera in use, the USB
\* camera of the lowest index found in use, or a failure with no camera in use
UsesPiCamera == pc' = "running" /\ camera_type' = "picam" /\ picam' = "Open" /\ cap' = "None"
UsesLowestUsb(o) ==
  /\ pc' = "running"
  /\ camera_type' = "usb"
  /\ cap' = "Open"
  /\ cap_index' = <<Lowest(UsbDetected(o))>>
  /\ picam' = "None"
FailsUnused == pc' = "ended" /\ camera_type' = "None" /\ cap' # "Open" /\ picam' = "None"

\* C19 as stated: initialize_camera uses the Pi Camera whenever the rule
\* chooses it, the lowest-index USB camera whenever the rule chooses USB, and
\* fails only when the rule chooses nothing.
C19_SelectionRule ==
  [][\A o \in CameraOutcomes(Probes) :
       (app = "CameraApp" /\ RunStartWith(o)) =>
         CASE Chosen(o) = "picam" -> UsesPiCamera
           [] Chosen(o) = "usb"   -> UsesLowestUsb(o)
           [] OTHER               -> FailsUnused]_vars

\* C19, amended: initialize_camera tries the camera the rule chooses, and only
\* that one: it uses it when it opens, and fails, without trying the other
\* type, when the rule chooses nothing or opening the chosen camera fails.
C19_SelectionRuleOrOpenFailure ==
  [][\A o \in CameraOutcomes(Probes) :
       (app = "CameraApp" /\ RunStartWith(o)) =>
         CASE Chosen(o) = "picam" ->
                IF o.ctor = "ok" THEN UsesPiCamera
                                 ELSE FailsUnused /\ cap_index' = <<>>
           [] Chosen(o) = "usb" ->
                IF o.opened THEN UsesLowestUsb(o)
                            ELSE FailsUnused /\ cap_index' = <<Lowest(UsbDetected(o))>>
           [] OTHER -> FailsUnused /\ cap_index' = <<>>]_vars

\* initialize_camera has chosen and opened the USB camera at index 0
C19_Witness ==
  /\ app = "CameraApp"
  /\ last.op = "initialize_camera"
  /\ pc = "running"
  /\ camera_type = "usb"
  /\ cap_index = <<0>>

\* The inputs that are neither 1 nor 2
InvalidLines == Lines \ {"1", "2"}

\* C20: camera_launcher.main launches at most one application: none when no
\* camera is detected; the application of the only detected type, without a
\* prompt, when one type is detected; and when both are detected it prompts
\* again after every input other than 1 or 2, and launches exactly the
\* application chosen by 1 or 2, or none on a keyboard interrupt.
C20_LaunchesAtMostOne ==
  LET l == launcher
      pi == l.pi_camera_available
      usb == l.usb_camera_available
      n == Len(l.inputs)
  IN  l.pc \in {"prompt", "done"} =>
        /\ Len(l.launched) <= 1
        /\ (~pi /\ ~usb) => (l.pc = "done" /\ l.launched = <<>> /\ n = 0)
        /\ (pi /\ ~usb) => (l.pc = "done" /\ l.launched = <<PiCommand>> /\ n = 0)
        /\ (usb /\ ~pi) =>
             (l.pc = "done" /\ l.launched = <<UsbCommand(l.usb_index)>> /\ n = 0)
        /\ (pi /\ usb) =>
             /\ \A k \in 1 .. n - 1 : l.inputs[k] \in InvalidLines
             /\ (n = 0 \/ l.inputs[n] \in InvalidLines)
                  => (l.pc = "prompt" /\ l.launched = <<>>)
             /\ (n > 0 /\ l.inputs[n] = "1") => (l.pc = "done" /\ l.launched = <<PiCommand>>)
             /\ (n > 0 /\ l.inputs[n] = "2")
                  => (l.pc = "done" /\ l.launched = <<UsbCommand(l.usb_index)>>)
             /\ (n > 0 /\ l.inputs[n] = "KeyboardInterrupt")
                  => (l.pc = "done" /\ l.launched = <<>>)

\* With both cameras detected, the USB application was launched by a 2 that
\* followed two inputs that were neither 1 nor 2
C20_Witness ==
  /\ launcher.pc = "done"
  /\ launcher.pi_camera_available
  /\ launcher.usb_camera_available
  /\ Len(launcher.inputs) = 3
  /\ launcher.inputs[1] \in InvalidLines
  /\ launcher.inputs[2] \in InvalidLines
  /\ launcher.inputs[3] = "2"
  /\ launcher.launched = <<UsbCommand(launcher.usb_index)>>

\* C21: in CameraApp and USBCameraApp, wherever the run loop is about to read
\* the next frame, is_recording is true exactly when video_writer is set.
C21_FlagMatchesWriter ==
  (pc = "running" /\ app \in {"CameraApp", "USBCameraApp"})
    => (is_recording <=> video_writer # "None")

\* The loop goes on after a v key whose start failed: no writer, not recording
C21_Witness ==
  /\ pc = "running"
  /\ app \in {"CameraApp", "USBCameraApp"}
  /\ last.op = "start_video_recording"
  /\ last.failed
  /\ ~is_recording
  /\ video_writer = "None"

\* C22: in USBCameraApp and PiCameraApp, a q key pressed while the loop runs
\* is eventually handled and ends the loop, whether or not frames are read.
C22_QuitEventuallyHandled ==
  [](((app \in {"USBCameraApp", "PiCameraApp"}) /\ pc = "running" /\ screen.pending = "q")
       => <>(pc = "ended"))

\* The camera handles the libraries hold open for the object: the capture and
\* the Pi Camera its fields refer to, and the captures nothing refers to
CameraHandles ==
  (IF cap = "Open" THEN 1 ELSE 0) + (IF picam = "Open" THEN 1 ELSE 0) + leaked_caps

\* C23: in CameraApp, whatever c keys were pressed, at most one camera handle
\* the application opened is open at a time, and none is open once cleanup
\* has run.
C23_OneCameraHandle ==
  app = "CameraApp" =>
    /\ CameraHandles <= 1
    /\ (pc = "ended" /\ exit_path # "startup_failed") => CameraHandles = 0
====
